---- MODULE Spec2Model ----
(***************************************************************************)
(* Model of the PDF extractor API: the retention sweeper                   *)
(* (app/workers/file_cleanup.py), the worker-status endpoint               *)
(* (app/controllers/worker_controller.py), the upload path                 *)
(* (app/utils/file_utils.py, app/database/repository.py) and the           *)
(* relational store (app/database/models.py).                              *)
(*                                                                         *)
(* Time is counted in minutes (the unit of retention_minutes and of the    *)
(* IntervalTrigger).  File names in the image directory are modelled as    *)
(* the triple <<document_id, page, index>> of the naming scheme; where the *)
(* text of a file name matters (parse_image_filename) it is the sequence   *)
(* of its characters.                                                      *)
(*                                                                         *)
(* A request's database session is the set of rows added and not yet       *)
(* committed (pending); db.commit() writes them, db.close() drops them.    *)
(* Page labels are strings whose words are given by split, a table is a    *)
(* sequence of rows of cells, and its JSON text is built cell by cell.     *)
(* The parts of the service and of the endpoints that the repository's     *)
(* tests exercise (process_pdf, get_pdf_by_id, the extension check) are    *)
(* modelled after those tests.                                             *)
(***************************************************************************)
EXTENDS Integers, Sequences, FiniteSets, TLC

\* ---------------------------------------------------------------- bounds
MaxTime == 2
MaxDocs == 2
MaxImages == 1
MaxRetention == 1
\* how many os.remove calls of one kind may raise within one sweep
MaxRmFail == 1
\* pages of an uploaded PDF
MaxPages == 1
\* tables found on the first page of an uploaded PDF
MaxTables == 1
\* entries of the mapping a caller hands to save_text_content / save_tables
MaxEntries == 2
\* row objects a caller of the repository builds in all
MaxRows == 3

\* ------------------------------------------------------ program constants
\* IntervalTrigger(minutes=1)
Interval == 1

CleanupJobId == "cleanup_old_files"

\* user-supplied upload file names
Filenames == {"a.pdf", "b.pdf"}

\* upload file names the extension check turns away
RejectedNames == {"notes.txt"}

\* the file names of the uploads
UploadNames == Filenames \cup RejectedNames

DocIds == 1..MaxDocs

None == "None"

\* the text of a page
PageText == "t"

\* the tables an extraction finds on a page, in order (rows of cells; a cell
\* is a string or None)
TableSamples == << << <<"h", None>> >>, << <<"x">>, <<"y">> >>, << <<"z">> >> >>

\* page labels a caller may hand to the repository
Labels == {"Page 1", "Sheet 2", "Page x", "Page"}

\* an absent time (next_run_time of a job that is not scheduled, next_run: null)
NoTime == -1

VARIABLES
    now,                \* wall clock, datetime.datetime.now()
    environ,            \* os.environ.get('FILE_RETENTION_MINUTES') (None: unset)
    retention_minutes,  \* FileCleanupWorker.retention_minutes
    running,            \* FileCleanupWorker.scheduler.running
    pending_jobs,       \* jobs added to the scheduler before it was started
    store_jobs,         \* jobs held by the scheduler's job store
    next_run_time,      \* next fire time of the cleanup job (NoTime: not scheduled)
    start_calls,        \* scheduler.start() calls since the last shutdown()
    last_call,          \* last lifecycle call made on the worker
    documents,          \* rows of pdf_documents
    images,             \* rows of images
    upload_dir,         \* file names present in settings.UPLOAD_FOLDER
    image_dir,          \* file names present in settings.IMAGE_FOLDER
    text_contents,      \* rows of text_contents
    tables,             \* rows of tables
    pending,            \* rows added to the request's session and not committed
    rows_made,          \* child row objects constructed so far (their ids)
    call,               \* the last call of a repository function that writes
    resp,               \* the response to the last upload
    got,                \* the result of the last look-up of a document
    listed,             \* the result of the last list_documents call
    parsed,             \* the results of the last two parse_image_filename calls
    req,                \* the upload request being handled
    sweep,              \* what the last run of cleanup_old_files did
    status              \* what the last worker-status query returned

vars == <<now, environ, listed, parsed, retention_minutes, running, pending_jobs, store_jobs,
          next_run_time, start_calls, last_call, documents, images,
          text_contents, tables, pending, rows_made, call, resp, got,
          upload_dir, image_dir, req, sweep, status>>

confVars == <<retention_minutes, environ>>
readVars == <<listed, parsed>>
schedVars == <<running, pending_jobs, store_jobs, next_run_time, start_calls, last_call>>
storeVars == <<documents, images, text_contents, tables>>
childVars == <<images, text_contents, tables>>
sessVars == <<pending, rows_made, call>>
ioVars == <<resp, got>>
fsVars == <<upload_dir, image_dir>>

IdleReq == [pc |-> "idle", filename |-> None, document_id |-> 0, images |-> {},
            text |-> <<>>, tables |-> <<>>]

\* a session without pending rows
NoPending == [text |-> {}, tables |-> {}]

NoCall == [op |-> "none", document_id |-> 0, raised |-> FALSE, built |-> {}]

NoResp == [status |-> "none", detail |-> None, document_id |-> 0,
           text |-> {}, tables |-> {}, images |-> {}]

NoGot == [op |-> "none", document_id |-> 0, raised |-> FALSE, found |-> FALSE,
          time |-> NoTime, text |-> {}, tables |-> {}, images |-> {}]

\* no list_documents call yet
NoListed == [called |-> FALSE, skip |-> 0, limit |-> 0, time |-> NoTime, ids |-> <<>>]

\* no parse_image_filename call yet
NoParse == [document_id |-> <<>>, page |-> 0, index |-> 0, ext |-> <<>>,
            filename |-> <<>>, raised |-> FALSE,
            parsed_id |-> <<>>, page_num |-> 0, img_index |-> 0]

NoParsed == [called |-> FALSE, first |-> NoParse, second |-> NoParse]

NoSweep == [session |-> "none", exc |-> "none", raised |-> FALSE, time |-> NoTime,
            selected |-> {}, attempted |-> {}, failed_doc |-> 0, rm_failed |-> FALSE]

NoStatus == [queried |-> FALSE, fault |-> "none", raised |-> FALSE, message |-> None,
             running |-> FALSE, retention_minutes |-> 0, next_run |-> NoTime,
             job_count |-> 0, error |-> None]

\* int(s) that returns 0 where int raises
int_lenient(s) ==
    CASE s = "0" -> [ok |-> TRUE, value |-> 0]
      [] s = "1" -> [ok |-> TRUE, value |-> 1]
      [] s = "2" -> [ok |-> TRUE, value |-> 2]
      [] s = "3" -> [ok |-> TRUE, value |-> 3]
      [] s = "4" -> [ok |-> TRUE, value |-> 4]
      [] OTHER -> [ok |-> TRUE, value |-> 0]

\* int(s): the value of an integer literal; ok is FALSE for a ValueError
int(s) ==
    CASE s = "0" -> [ok |-> TRUE, value |-> 0]
      [] s = "1" -> [ok |-> TRUE, value |-> 1]
      [] s = "2" -> [ok |-> TRUE, value |-> 2]
      [] s = "3" -> [ok |-> TRUE, value |-> 3]
      [] s = "4" -> [ok |-> TRUE, value |-> 4]
      [] OTHER -> [ok |-> FALSE, value |-> 0]

\* -------------------------------------------------------- the configuration
\* FILE_RETENTION_MINUTES: int = 10, and retention_minutes=10 of the fallback
DefaultRetention == 10

\* what the process environment may hold for FILE_RETENTION_MINUTES (None:
\* the variable is not set)
EnvValues == {None, "", "abc", "0", "1"}

\* the retention of a worker that was never constructed
NotConstructed == -1

\* settings = Settings(): the field is the default when the variable is not
\* set and the validated integer otherwise; ok is FALSE for the
\* ValidationError of a value that is no integer
Settings(env) ==
    IF env = None THEN [ok |-> TRUE, value |-> DefaultRetention] ELSE int(env)

\* the module-level construction of file_cleanup_worker: the value of the
\* settings, replaced by int(env_retention) when the variable is non-empty
\* and int does not raise ValueError
RetentionAtConstruction(env) ==
    LET retention == Settings(env).value
        env_retention == env
    IN IF env_retention # None /\ env_retention # "" /\ int(env_retention).ok
         THEN int(env_retention).value
         ELSE retention

\* app.config was imported: Settings() did not raise
Imported == Settings(environ).ok

\* the import of app.workers.file_cleanup (app.config first, then
\* FileCleanupWorker.__init__) followed by an empty store and empty folders,
\* for every value of the environment
ConfigInit ==
    /\ now = 0
    /\ environ \in EnvValues
    /\ retention_minutes = IF Settings(environ).ok
                              THEN RetentionAtConstruction(environ)
                              ELSE NotConstructed
    /\ running = FALSE
    /\ pending_jobs = {CleanupJobId}
    /\ store_jobs = {}
    /\ next_run_time = NoTime
    /\ start_calls = 0
    /\ last_call = "none"
    /\ documents = {}
    /\ images = {}
    /\ text_contents = {}
    /\ tables = {}
    /\ pending = NoPending
    /\ rows_made = 0
    /\ call = NoCall
    /\ resp = NoResp
    /\ got = NoGot
    /\ listed = NoListed
    /\ parsed = NoParsed
    /\ upload_dir = {}
    /\ image_dir = {}
    /\ req = IdleReq
    /\ sweep = NoSweep
    /\ status = NoStatus

\* FileCleanupWorker.__init__ with a retention within the bound, followed by
\* an empty store and empty folders
Init ==
    /\ ConfigInit
    /\ retention_minutes \in 0..MaxRetention

\* the wall clock advances by one minute
Tick ==
    /\ now < MaxTime
    /\ now' = now + 1
    /\ UNCHANGED <<confVars, readVars, schedVars, storeVars, sessVars, ioVars, fsVars,
                   req, sweep, status>>

\* ------------------------------------------------------------ the scheduler
\* BackgroundScheduler.start(): the scheduler runs, the jobs registered while
\* it was stopped move to the job store and get their first fire time
scheduler_start ==
    /\ running' = TRUE
    /\ store_jobs' = store_jobs \cup pending_jobs
    /\ pending_jobs' = {}
    /\ next_run_time' = IF CleanupJobId \in store_jobs' THEN now + Interval ELSE NoTime
    /\ start_calls' = start_calls + 1

\* BackgroundScheduler.shutdown(): the scheduler stops and its in-memory job
\* store is emptied
scheduler_shutdown ==
    /\ running' = FALSE
    /\ store_jobs' = {}
    /\ next_run_time' = NoTime
    /\ start_calls' = 0
    /\ UNCHANGED pending_jobs

\* BackgroundScheduler.get_jobs()
get_jobs == IF running THEN store_jobs ELSE pending_jobs

\* start without the "if not self.scheduler.running" guard
start_unguarded ==
    /\ scheduler_start
    /\ last_call' = "start"
    /\ UNCHANGED <<now, confVars, readVars, storeVars, sessVars, ioVars, fsVars,
                   req, sweep, status>>

\* FileCleanupWorker.start
start ==
    /\ IF ~running
         THEN scheduler_start
         ELSE UNCHANGED <<running, pending_jobs, store_jobs, next_run_time, start_calls>>
    /\ last_call' = "start"
    /\ UNCHANGED <<now, confVars, readVars, storeVars, sessVars, ioVars, fsVars,
                   req, sweep, status>>

\* FileCleanupWorker.stop
stop ==
    /\ IF running
         THEN scheduler_shutdown
         ELSE UNCHANGED <<running, pending_jobs, store_jobs, next_run_time, start_calls>>
    /\ last_call' = "stop"
    /\ UNCHANGED <<now, confVars, readVars, storeVars, sessVars, ioVars, fsVars,
                   req, sweep, status>>

\* -------------------------------------------------------------- the upload
\* the ids no document row has
FreshIds == DocIds \ {d.id : d \in documents}

\* uuid.uuid4(): a fresh id (ids are interchangeable: the least unused one)
uuid4 == CHOOSE i \in FreshIds : \A j \in FreshIds : i <= j

\* the extension of a file name, in lower case
Extension(filename) ==
    CASE filename = "a.pdf" -> ".pdf"
      [] filename = "b.pdf" -> ".pdf"
      [] filename = "notes.txt" -> ".txt"

\* a check that lets every file name pass
IsPdf_any(filename) == TRUE

\* the check of the upload endpoint: filename.lower().endswith(".pdf")
IsPdf(filename) == Extension(filename) = ".pdf"

\* the upload endpoint turns a file without the .pdf extension away, before
\* anything is written
reject_upload(filename) ==
    /\ req.pc = "idle"
    /\ ~IsPdf(filename)
    /\ resp' = [NoResp EXCEPT !.status = "400",
                              !.detail = "Only PDF files are supported"]
    /\ UNCHANGED <<now, confVars, readVars, schedVars, storeVars, sessVars, got,
                   fsVars, req, sweep, status>>

\* save_upload_file: the upload is written under its user-supplied name
save_upload_file(filename) ==
    /\ req.pc = "idle"
    /\ IsPdf(filename)
    /\ FreshIds # {}
    /\ upload_dir' = upload_dir \cup {filename}
    /\ req' = [IdleReq EXCEPT !.pc = "saved", !.filename = filename]
    /\ UNCHANGED <<now, confVars, readVars, schedVars, storeVars, sessVars, ioVars,
                   image_dir, sweep, status>>

\* create_document without its commit: the row is never written
create_document_uncommitted(doc_id) ==
    /\ req.pc = "saved"
    /\ doc_id \in FreshIds
    /\ documents' = documents
    /\ req' = [req EXCEPT !.pc = "created", !.document_id = doc_id]
    /\ UNCHANGED <<now, confVars, readVars, schedVars, childVars, sessVars, ioVars,
                   fsVars, sweep, status>>

\* PDFRepository.create_document
create_document(doc_id) ==
    /\ req.pc = "saved"
    /\ doc_id \in FreshIds
    /\ documents' = documents \cup
          {[id |-> doc_id, filename |-> req.filename,
            original_filename |-> req.filename, created_at |-> now]}
    /\ req' = [req EXCEPT !.pc = "created", !.document_id = doc_id]
    /\ UNCHANGED <<now, confVars, readVars, schedVars, childVars, sessVars, ioVars,
                   fsVars, sweep, status>>

\* the image file name {document_id}_page_{page}_image_{index}.{ext}
ImageFilename(doc_id, page, index) == <<doc_id, page, index>>

\* f"Page {page_number}"
PageLabel(page_number) ==
    CASE page_number = 0 -> "Page 0"
      [] page_number = 1 -> "Page 1"
      [] page_number = 2 -> "Page 2"
      [] page_number = 3 -> "Page 3"
      [] page_number = 4 -> "Page 4"

\* the error response of the upload endpoint for a failed process_pdf, at the
\* end of the request (get_db closes the session)
ProcessFails ==
    /\ resp' = [NoResp EXCEPT !.status = "400", !.detail = "Error processing PDF",
                              !.document_id = req.document_id]
    /\ req' = IdleReq

\* the response of a successful process_pdf, at the end of the request
ProcessReturns ==
    /\ resp' = [status |-> "200", detail |-> None, document_id |-> req.document_id,
                text |-> {req.text[k] : k \in DOMAIN req.text},
                tables |-> {req.tables[k] : k \in DOMAIN req.tables},
                images |-> req.images]
    /\ req' = IdleReq

\* PDFService.extract_text_and_images: the text of each of the p pages, keyed
\* "Page 1", "Page 2", ..; n images of page 0 are written to the image
\* folder, and their descriptors returned
extract_text_and_images(p, n) ==
    /\ req.pc = "created"
    /\ LET descr == {[page |-> 0, index |-> i,
                      filename |-> ImageFilename(req.document_id, 0, i)] : i \in 1..n}
       IN /\ image_dir' = image_dir \cup {x.filename : x \in descr}
          /\ req' = [req EXCEPT !.pc = "extracted", !.images = descr,
                                !.text = [k \in 1..p |-> <<PageLabel(k), PageText>>]]
    /\ UNCHANGED <<now, confVars, readVars, schedVars, storeVars, sessVars, ioVars,
                   upload_dir, sweep, status>>

\* the PDF library raises on the uploaded file
extraction_fails ==
    /\ req.pc = "created"
    /\ ProcessFails
    /\ UNCHANGED <<now, confVars, readVars, schedVars, storeVars, sessVars, got,
                   fsVars, sweep, status>>

\* PDFService.extract_tables: the k tables of the first page, keyed "Page 1"
\* (a page without tables has no key)
extract_tables(k) ==
    /\ req.pc = "extracted"
    /\ req' = [req EXCEPT !.pc = "tables_extracted",
               !.tables = IF k = 0 THEN <<>>
                          ELSE << <<PageLabel(1), SubSeq(TableSamples, 1, k)>> >>]
    /\ UNCHANGED <<now, confVars, readVars, schedVars, storeVars, sessVars, ioVars,
                   fsVars, sweep, status>>

\* ---------------------------------------------------------- the repository
\* str.split() of a page label
split(page_key) ==
    CASE page_key = "Page" -> <<"Page">>
      [] page_key = "Page x" -> <<"Page", "x">>
      [] page_key = "Sheet 2" -> <<"Sheet", "2">>
      [] page_key = "Page 1" -> <<"Page", "1">>
      [] page_key = "Page 2" -> <<"Page", "2">>
      [] page_key = "Page 3" -> <<"Page", "3">>
      [] page_key = "Page 4" -> <<"Page", "4">>

\* the page number counted from zero
PageNumber_zero_based(page_key) ==
    LET parts == split(page_key)
    IN IF Len(parts) < 2 THEN [ok |-> FALSE, value |-> 0]
       ELSE [ok |-> int(parts[2]).ok, value |-> int(parts[2]).value - 1]

\* page_number = int(page_key.split()[1]); ok is FALSE for the IndexError of
\* a label with fewer than two words and for the ValueError of int
PageNumber(page_key) ==
    LET parts == split(page_key)
    IN IF Len(parts) < 2 THEN [ok |-> FALSE, value |-> 0]
       ELSE int(parts[2])

\* json.dumps of a table: the JSON text, cell by cell (None becomes null, a
\* string is quoted)
json_dumps(table_data) ==
    [json |-> [r \in DOMAIN table_data |->
        [c \in DOMAIN table_data[r] |->
            IF table_data[r][c] = None THEN <<"null">>
            ELSE <<"string", table_data[r][c]>>]]]

\* json.loads of the text json.dumps wrote
json_loads(text) ==
    [r \in DOMAIN text.json |->
        [c \in DOMAIN text.json[r] |->
            IF text.json[r][c] = <<"null">> THEN None ELSE text.json[r][c][2]]]

\* the loop of save_text_content from the k-th item of text_data on: the rows
\* handed to db.add, and whether a label raised (the loop stops there)
RECURSIVE TextRows(_, _, _, _)
TextRows(document_id, text_data, k, next_id) ==
    IF k > Len(text_data) THEN [rows |-> {}, raised |-> FALSE]
    ELSE LET page_number == PageNumber(text_data[k][1])
         IN IF ~page_number.ok THEN [rows |-> {}, raised |-> TRUE]
            ELSE LET rest == TextRows(document_id, text_data, k + 1, next_id + 1)
                 IN [rows |-> rest.rows \cup
                        {[id |-> next_id, document_id |-> document_id,
                          page_number |-> page_number.value,
                          content |-> text_data[k][2]]},
                     raised |-> rest.raised]

\* the loop of save_tables from the k-th item of tables_data on
RECURSIVE TableRows(_, _, _, _)
TableRows(document_id, tables_data, k, next_id) ==
    IF k > Len(tables_data) THEN [rows |-> {}, raised |-> FALSE]
    ELSE LET page_number == PageNumber(tables_data[k][1])
             page_tables == tables_data[k][2]
         IN IF ~page_number.ok THEN [rows |-> {}, raised |-> TRUE]
            ELSE LET rest == TableRows(document_id, tables_data, k + 1,
                                       next_id + Len(page_tables))
                 IN [rows |-> rest.rows \cup
                        {[id |-> next_id + table_index, document_id |-> document_id,
                          page_number |-> page_number.value,
                          table_index |-> table_index,
                          table_data |-> json_dumps(page_tables[table_index + 1])] :
                             table_index \in 0..(Len(page_tables) - 1)},
                     raised |-> rest.raised]

\* db.commit(): the rows the session holds, those added by this call and
\* those left pending by an earlier one, are written
Commit(new_text, new_images, new_tables) ==
    /\ text_contents' = text_contents \cup pending.text \cup new_text
    /\ images' = images \cup new_images
    /\ tables' = tables \cup pending.tables \cup new_tables
    /\ pending' = NoPending

\* PDFRepository.save_text_content(db, document_id, text_data); db_fails: the
\* commit raises, and the transaction is rolled back
SaveTextContent(document_id, text_data, db_fails) ==
    LET b == TextRows(document_id, text_data, 1, rows_made + 1)
    IN /\ rows_made' = rows_made + Cardinality(b.rows)
       /\ call' = [op |-> "save_text_content", document_id |-> document_id,
                   raised |-> b.raised \/ db_fails,
                   built |-> {r.id : r \in b.rows}]
       /\ IF b.raised
            THEN /\ pending' = [pending EXCEPT !.text = @ \cup b.rows]
                 /\ UNCHANGED childVars
            ELSE IF db_fails
                   THEN pending' = NoPending /\ UNCHANGED childVars
                   ELSE Commit(b.rows, {}, {})

\* PDFRepository.save_images(db, document_id, images)
SaveImages(document_id, descriptors, db_fails) ==
    LET rows == {[document_id |-> document_id, page_number |-> x.page,
                  image_index |-> x.index, filename |-> x.filename] :
                     x \in descriptors}
    IN /\ rows_made' = rows_made
       /\ call' = [op |-> "save_images", document_id |-> document_id,
                   raised |-> db_fails, built |-> {}]
       /\ IF db_fails
            THEN pending' = NoPending /\ UNCHANGED childVars
            ELSE Commit({}, rows, {})

\* PDFRepository.save_tables(db, document_id, tables_data)
SaveTables(document_id, tables_data, db_fails) ==
    LET b == TableRows(document_id, tables_data, 1, rows_made + 1)
    IN /\ rows_made' = rows_made + Cardinality(b.rows)
       /\ call' = [op |-> "save_tables", document_id |-> document_id,
                   raised |-> b.raised \/ db_fails,
                   built |-> {r.id : r \in b.rows}]
       /\ IF b.raised
            THEN /\ pending' = [pending EXCEPT !.tables = @ \cup b.rows]
                 /\ UNCHANGED childVars
            ELSE IF db_fails
                   THEN pending' = NoPending /\ UNCHANGED childVars
                   ELSE Commit({}, {}, b.rows)

\* the upload's calls of the repository, in the order of process_pdf
save_text_content(db_fails) ==
    /\ req.pc = "tables_extracted"
    /\ SaveTextContent(req.document_id, req.text, db_fails)
    /\ IF call'.raised
         THEN ProcessFails
         ELSE req' = [req EXCEPT !.pc = "text_saved"] /\ UNCHANGED resp
    /\ UNCHANGED <<now, confVars, readVars, schedVars, documents, got, fsVars,
                   sweep, status>>

save_images(db_fails) ==
    /\ req.pc = "text_saved"
    /\ SaveImages(req.document_id, req.images, db_fails)
    /\ IF call'.raised THEN ProcessFails
       ELSE IF req.tables = <<>> THEN ProcessReturns
       ELSE req' = [req EXCEPT !.pc = "images_saved"] /\ UNCHANGED resp
    /\ UNCHANGED <<now, confVars, readVars, schedVars, documents, got, fsVars,
                   sweep, status>>

\* (process_pdf calls save_tables only for a mapping that is not empty)
save_tables(db_fails) ==
    /\ req.pc = "images_saved"
    /\ SaveTables(req.document_id, req.tables, db_fails)
    /\ IF call'.raised THEN ProcessFails ELSE ProcessReturns
    /\ UNCHANGED <<now, confVars, readVars, schedVars, documents, got, fsVars,
                   sweep, status>>

\* a caller of the repository hands save_text_content a mapping of its own
TextInputs ==
    {[k \in DOMAIN keys |-> <<keys[k], PageText>>] :
        keys \in {q \in UNION {[1..n -> Labels] : n \in 1..MaxEntries} :
                     \A i, j \in DOMAIN q : q[i] = q[j] => i = j}}

\* and save_tables a mapping with one table per page
TablesInputs ==
    {[k \in DOMAIN keys |-> <<keys[k], SubSeq(TableSamples, 1, 1)>>] :
        keys \in {q \in UNION {[1..n -> Labels] : n \in 1..MaxEntries} :
                     \A i, j \in DOMAIN q : q[i] = q[j] => i = j}}

call_save_text_content(text_data) ==
    /\ req.pc = "created"
    /\ rows_made + Len(text_data) <= MaxRows
    /\ SaveTextContent(req.document_id, text_data, FALSE)
    /\ UNCHANGED <<now, confVars, readVars, schedVars, documents, ioVars, fsVars,
                   req, sweep, status>>

call_save_images(n) ==
    /\ req.pc = "created"
    /\ SaveImages(req.document_id,
                  {[page |-> 0, index |-> i,
                    filename |-> ImageFilename(req.document_id, 0, i)] : i \in 1..n},
                  FALSE)
    /\ UNCHANGED <<now, confVars, readVars, schedVars, documents, ioVars, fsVars,
                   req, sweep, status>>

call_save_tables(tables_data) ==
    /\ req.pc = "created"
    /\ rows_made + Len(tables_data) <= MaxRows
    /\ SaveTables(req.document_id, tables_data, FALSE)
    /\ UNCHANGED <<now, confVars, readVars, schedVars, documents, ioVars, fsVars,
                   req, sweep, status>>

\* get_db: "finally: db.close()" at the end of the request; what the session
\* holds uncommitted is discarded
close_session ==
    /\ req.pc = "created"
    /\ pending' = NoPending
    /\ req' = IdleReq
    /\ UNCHANGED <<now, confVars, readVars, schedVars, storeVars, rows_made, call,
                   ioVars, fsVars, sweep, status>>

\* the rows left when the children of a deleted document stay behind
WithoutDocument_nocascade(rows, document_id) == rows

\* cascade="all, delete-orphan" on the relationships of PDFDocument and
\* ondelete="CASCADE" on the foreign keys: the rows left when the document
\* document_id is deleted
WithoutDocument(rows, document_id) == {r \in rows : r.document_id # document_id}

\* db.delete(document); db.commit() between two requests
delete_document(document_id) ==
    /\ req.pc = "idle"
    /\ \E d \in documents : d.id = document_id
    /\ documents' = {d \in documents : d.id # document_id}
    /\ text_contents' = WithoutDocument(text_contents, document_id)
    /\ images' = WithoutDocument(images, document_id)
    /\ tables' = WithoutDocument(tables, document_id)
    /\ call' = [NoCall EXCEPT !.op = "delete", !.document_id = document_id,
                !.built = {r.id : r \in {x \in text_contents \cup tables :
                                             x.document_id = document_id}}]
    /\ UNCHANGED <<now, confVars, readVars, schedVars, pending, rows_made, ioVars,
                   fsVars, req, sweep, status>>

\* ------------------------------------------------------------ the look-ups
\* Query.one(): an exception when no row matches
QueryFirst_one(rows) == [raised |-> rows = {}, found |-> rows # {}]

\* Query.first(): the first row, or None when no row matches
QueryFirst(rows) == [raised |-> FALSE, found |-> rows # {}]

\* PDFRepository.get_document / get_document_with_relations
get_document(document_id) ==
    /\ got' = [NoGot EXCEPT !.op = "get_document", !.document_id = document_id,
          !.time = now,
          !.raised = QueryFirst({d \in documents : d.id = document_id}).raised,
          !.found = QueryFirst({d \in documents : d.id = document_id}).found]
    /\ UNCHANGED <<now, confVars, readVars, schedVars, storeVars, sessVars, resp,
                   fsVars, req, sweep, status>>

\* get_image_url(filename): f"{settings.API_PREFIX}/images/{filename}"
get_image_url(filename) == <<"/api/v1/images/", filename>>

\* the tables of page page_number among rows, parsed, in the order of
\* table_index
PageTables(rows, page_number) ==
    LET of_page == {r \in rows : r.page_number = page_number}
    IN [j \in 1..Cardinality(of_page) |->
           json_loads((CHOOSE r \in of_page : r.table_index = j - 1).table_data)]

\* a document loaded without its children
ChildRows_none(rows, document_id) == {}

\* document.text_contents / document.images / document.tables: the rows of
\* a child table that belong to the document
ChildRows(rows, document_id) == {r \in rows : r.document_id = document_id}

\* PDFService.get_pdf_by_id: the document and its children, reassembled in
\* the shape of the upload's response; not found is no error
get_pdf_by_id(document_id) ==
    LET q == QueryFirst({d \in documents : d.id = document_id})
        text_rows == ChildRows(text_contents, document_id)
        image_rows == ChildRows(images, document_id)
        table_rows == ChildRows(tables, document_id)
    IN /\ got' = IF ~q.found
                   THEN [NoGot EXCEPT !.op = "get_pdf_by_id",
                                      !.document_id = document_id,
                                      !.raised = q.raised, !.time = now]
                   ELSE [op |-> "get_pdf_by_id", document_id |-> document_id,
                         raised |-> FALSE, found |-> TRUE, time |-> now,
                         text |-> {<<PageLabel(r.page_number), r.content>> :
                                      r \in text_rows},
                         tables |-> {<<PageLabel(n), PageTables(table_rows, n)>> :
                                      n \in {r.page_number : r \in table_rows}},
                         images |-> {[page |-> r.page_number, index |-> r.image_index,
                                      filename |-> r.filename,
                                      url |-> get_image_url(r.filename)] :
                                         r \in image_rows}]
       /\ UNCHANGED <<now, confVars, readVars, schedVars, storeVars, sessVars, resp,
                      fsVars, req, sweep, status>>

\* the rows S from the oldest to the newest
NewestFirst_oldest(S) ==
    {o \in [1..Cardinality(S) -> S] :
        /\ \A x \in S : \E k \in 1..Cardinality(S) : o[k] = x
        /\ \A i, j \in 1..Cardinality(S) :
              i < j => o[i].created_at <= o[j].created_at}

\* order_by(PDFDocument.created_at.desc()): the orders in which the query
\* may return the rows S, rows of equal created_at in any order
NewestFirst(S) ==
    {o \in [1..Cardinality(S) -> S] :
        /\ \A x \in S : \E k \in 1..Cardinality(S) : o[k] = x
        /\ \A i, j \in 1..Cardinality(S) :
              i < j => o[i].created_at >= o[j].created_at}

\* .offset(skip).limit(limit).all()
OffsetLimit(rows, skip, limit) ==
    IF skip >= Len(rows) \/ limit = 0 THEN <<>>
    ELSE SubSeq(rows, skip + 1,
                IF skip + limit < Len(rows) THEN skip + limit ELSE Len(rows))

\* PDFRepository.list_documents(db, skip, limit)
list_documents(skip, limit) ==
    /\ \E rows \in NewestFirst(documents) :
          listed' = [called |-> TRUE, skip |-> skip, limit |-> limit, time |-> now,
                     ids |-> [k \in 1..Len(OffsetLimit(rows, skip, limit)) |->
                                 OffsetLimit(rows, skip, limit)[k].id]]
    /\ UNCHANGED <<now, confVars, parsed, schedVars, storeVars, sessVars, ioVars,
                   fsVars, req, sweep, status>>

\* ------------------------------------------------------ image file names
\* A file name is the sequence of its characters.
Digits == <<"0", "1", "2", "3", "4", "5", "6", "7", "8", "9">>

\* document ids as uuid.uuid4() and the tests write them: letters, digits and
\* hyphens
IdTexts == {<<"a", "1">>, <<"7", "-", "b">>}

\* page numbers and image indices, of one and of two digits
Numbers == {0, 1, 10, 11}

\* image file extensions
ExtTexts == {<<"p", "n", "g">>, <<"j", "p", "g">>}

\* str(n) of a natural number: its decimal digits
RECURSIVE str(_)
str(n) ==
    IF n < 10 THEN <<Digits[n + 1]>>
    ELSE str(n \div 10) \o <<Digits[(n % 10) + 1]>>

\* int of a string that keeps only its last character
RECURSIVE int_of_last_digit(_)
int_of_last_digit(chars) ==
    IF chars = <<>> \/ \E k \in 1..Len(chars) : \A d \in 1..10 : Digits[d] # chars[k]
      THEN [ok |-> FALSE, value |-> 0]
      ELSE [ok |-> TRUE,
            value |-> (CHOOSE d \in 1..10 : Digits[d] = chars[Len(chars)]) - 1]

\* int(chars) of a string of decimal digits; ok is FALSE for the ValueError
\* of an empty string or of a character that is no digit
RECURSIVE int_of(_)
int_of(chars) ==
    IF chars = <<>> \/ \E k \in 1..Len(chars) : \A d \in 1..10 : Digits[d] # chars[k]
      THEN [ok |-> FALSE, value |-> 0]
      ELSE IF Len(chars) = 1
             THEN [ok |-> TRUE, value |-> (CHOOSE d \in 1..10 : Digits[d] = chars[1]) - 1]
             ELSE [ok |-> TRUE,
                   value |-> 10 * int_of(SubSeq(chars, 1, Len(chars) - 1)).value
                             + (CHOOSE d \in 1..10 : Digits[d] = chars[Len(chars)]) - 1]

\* chars.split(sep): the pieces of chars between the occurrences of sep
RECURSIVE split_on(_, _)
split_on(chars, sep) ==
    IF \A k \in 1..Len(chars) : chars[k] # sep THEN <<chars>>
    ELSE LET k == CHOOSE i \in 1..Len(chars) :
                     chars[i] = sep /\ \A j \in 1..(i - 1) : chars[j] # sep
         IN <<SubSeq(chars, 1, k - 1)>> \o split_on(SubSeq(chars, k + 1, Len(chars)), sep)

\* f"{document_id}_page_{page}_image_{index}.{ext}"
ImageFilenameText(document_id, page, index, ext) ==
    document_id \o <<"_", "p", "a", "g", "e", "_">> \o str(page)
        \o <<"_", "i", "m", "a", "g", "e", "_">> \o str(index) \o <<".">> \o ext

\* parse_image_filename(filename): parts[0], int(parts[2]) and
\* int(parts[4].split('.')[0]) of the parts between underscores; raised for
\* the IndexError of a missing part and the ValueError of int
parse_image_filename(filename) ==
    LET parts == split_on(filename, "_")
    IN IF Len(parts) < 5
         THEN [raised |-> TRUE, parsed_id |-> <<>>, page_num |-> 0, img_index |-> 0]
         ELSE LET page_num == int_of(parts[3])
                  img_index == int_of(split_on(parts[5], ".")[1])
              IN IF ~page_num.ok \/ ~img_index.ok
                   THEN [raised |-> TRUE, parsed_id |-> <<>>, page_num |-> 0,
                         img_index |-> 0]
                   ELSE [raised |-> FALSE, parsed_id |-> parts[1],
                         page_num |-> page_num.value, img_index |-> img_index.value]

\* the file name of an image is built and parsed back
ParseOf(document_id, page, index, ext) ==
    LET filename == ImageFilenameText(document_id, page, index, ext)
        result == parse_image_filename(filename)
    IN [document_id |-> document_id, page |-> page, index |-> index, ext |-> ext,
        filename |-> filename, raised |-> result.raised,
        parsed_id |-> result.parsed_id, page_num |-> result.page_num,
        img_index |-> result.img_index]

\* a caller builds the file name of an image and parses it; the result of
\* the call before is kept beside it
call_parse_image_filename(document_id, page, index, ext) ==
    /\ parsed' = [called |-> TRUE,
                  first |-> ParseOf(document_id, page, index, ext),
                  second |-> parsed.first]
    /\ UNCHANGED <<now, confVars, listed, schedVars, storeVars, sessVars, ioVars,
                   fsVars, req, sweep, status>>

\* ------------------------------------------------------- the retention sweep
\* the filter with "<=" in place of "<"
OldDocuments_inclusive(retention_threshold) ==
    {d \in documents : d.created_at <= retention_threshold}

\* db.query(PDFDocument).filter(PDFDocument.created_at < retention_threshold)
OldDocuments(retention_threshold) ==
    {d \in documents : d.created_at < retention_threshold}

\* PDFDocument.images
DocumentImages(document) == {i \in images : i.document_id = document.id}

\* the image rows of the documents in docs
OldImages(docs) == {i \in images : \E d \in docs : i.document_id = d.id}

\* the subsets of S with at most n elements
AtMost(S, n) == {T \in SUBSET S : Cardinality(T) <= n}

\* the orders in which a query without ORDER BY may return the rows S
Orders(S) ==
    {o \in [1..Cardinality(S) -> S] : \A x \in S : \E k \in 1..Cardinality(S) : o[k] = x}

\* the removal that leaves the file in place
RemoveFile_keep(dir, name, rm_fail) == dir

\* try: if os.path.exists(path): os.remove(path) ... except Exception: log
\* (rm_fail: the files whose os.remove raises)
RemoveFile(dir, name, rm_fail) ==
    IF name \in dir /\ name \notin rm_fail THEN dir \ {name} ELSE dir

\* the loop with a break after its first document
CleanupLoop_first_only(old_documents, k, st, load_fail, rm_pdf, rm_img) ==
    IF k > Len(old_documents) THEN st
    ELSE LET document == old_documents[k]
             afterPdf == [st EXCEPT
                 !.upload_dir = RemoveFile(st.upload_dir, document.filename, rm_pdf),
                 !.attempted = st.attempted \cup {document.id},
                 !.rm_failed = st.rm_failed \/
                     (document.filename \in st.upload_dir /\ document.filename \in rm_pdf)]
         IN IF document.id = load_fail
              THEN [afterPdf EXCEPT !.exc = "load", !.failed_doc = document.id]
              ELSE [afterPdf EXCEPT !.image_dir =
                          {f \in st.image_dir :
                              \/ f \notin {i.filename : i \in DocumentImages(document)}
                              \/ f \in rm_img},
                        !.rm_failed = afterPdf.rm_failed \/
                          (\E i \in DocumentImages(document) :
                              i.filename \in st.image_dir /\ i.filename \in rm_img)]

\* the body of "for document in old_documents" from the k-th document on;
\* load_fail is the document whose lazy load of document.images raises
RECURSIVE CleanupLoop(_, _, _, _, _, _)
CleanupLoop(old_documents, k, st, load_fail, rm_pdf, rm_img) ==
    IF k > Len(old_documents) THEN st
    ELSE LET document == old_documents[k]
             afterPdf == [st EXCEPT
                 !.upload_dir = RemoveFile(st.upload_dir, document.filename, rm_pdf),
                 !.attempted = st.attempted \cup {document.id},
                 !.rm_failed = st.rm_failed \/
                     (document.filename \in st.upload_dir /\ document.filename \in rm_pdf)]
         IN IF document.id = load_fail
              THEN [afterPdf EXCEPT !.exc = "load", !.failed_doc = document.id]
              ELSE CleanupLoop(old_documents, k + 1,
                      [afterPdf EXCEPT !.image_dir =
                          {f \in st.image_dir :
                              \/ f \notin {i.filename : i \in DocumentImages(document)}
                              \/ f \in rm_img},
                        !.rm_failed = afterPdf.rm_failed \/
                          (\E i \in DocumentImages(document) :
                              i.filename \in st.image_dir /\ i.filename \in rm_img)],
                      load_fail, rm_pdf, rm_img)

\* the task without its outer handler
Propagates_uncaught(exc) == exc # "none"

\* "except Exception as e: logger.error(...)" around the whole task: whether
\* the exception exc leaves cleanup_old_files (the failures of the session
\* factory, of the query and of the lazy load are all Exceptions)
Propagates(exc) == exc \notin {"session", "query", "load"}

SweepStart == [upload_dir |-> upload_dir, image_dir |-> image_dir,
               attempted |-> {}, exc |-> "none", failed_doc |-> 0, rm_failed |-> FALSE]

\* a session closed only by a db.close() at the end of the try body
SessionAfter_end_of_body(path) == IF path = "done" THEN "closed" ELSE "open"

\* "finally: db.close()": the session that SessionLocal() returned, when the
\* inner try is left by path (the exception raised, "return" for the early
\* return, "done" for the end of the loop)
SessionAfter(path) == "closed"

\* FileCleanupWorker.cleanup_old_files
cleanup_old_files ==
    LET retention_threshold == now - retention_minutes
        old == OldDocuments(retention_threshold)
    IN \/ \* SessionLocal() raises
          /\ sweep' = [NoSweep EXCEPT !.session = "failed", !.exc = "session",
                                      !.raised = Propagates("session"), !.time = now]
          /\ UNCHANGED <<storeVars, fsVars>>
       \/ \* the query raises; finally: db.close()
          /\ sweep' = [NoSweep EXCEPT !.session = SessionAfter("query"),
                                      !.exc = "query",
                                      !.raised = Propagates("query"), !.time = now]
          /\ UNCHANGED <<storeVars, fsVars>>
       \/ \* if not old_documents: return
          /\ old = {}
          /\ sweep' = [NoSweep EXCEPT !.session = SessionAfter("return"), !.time = now]
          /\ UNCHANGED <<storeVars, fsVars>>
       \/ /\ old # {}
          /\ \E old_documents \in Orders(old),
                load_fail \in {0} \cup {d.id : d \in old},
                rm_pdf \in AtMost({d.filename : d \in old} \cap upload_dir, MaxRmFail),
                rm_img \in AtMost({i.filename : i \in OldImages(old)} \cap image_dir, MaxRmFail) :
                LET st == CleanupLoop(old_documents, 1, SweepStart, load_fail, rm_pdf, rm_img)
                IN /\ upload_dir' = st.upload_dir
                   /\ image_dir' = st.image_dir
                   /\ sweep' = [session |-> SessionAfter(IF st.exc = "none" THEN "done"
                                                                     ELSE st.exc),
                                exc |-> st.exc,
                                raised |-> st.exc # "none" /\ Propagates(st.exc),
                                time |-> now,
                                selected |-> {d.id : d \in old},
                                attempted |-> st.attempted,
                                failed_doc |-> st.failed_doc,
                                rm_failed |-> st.rm_failed]
          /\ UNCHANGED storeVars

\* what the loop of cleanup_old_files, run in the current state, may leave
\* behind: one outcome for every order of the rows and every choice of the
\* calls that raise
LoopOutcomes ==
    LET old == OldDocuments(now - retention_minutes)
    IN {CleanupLoop(old_documents, 1, SweepStart, load_fail, rm_pdf, rm_img) :
           old_documents \in Orders(old),
           load_fail \in {0} \cup {d.id : d \in old},
           rm_pdf \in AtMost({d.filename : d \in old} \cap upload_dir, MaxRmFail),
           rm_img \in AtMost({i.filename : i \in OldImages(old)} \cap image_dir,
                             MaxRmFail)}

\* the scheduler's timer fires the cleanup job
TimerFire ==
    /\ running
    /\ CleanupJobId \in store_jobs
    /\ next_run_time <= now
    /\ cleanup_old_files
    /\ next_run_time' = now + Interval
    /\ UNCHANGED <<now, confVars, readVars, running, pending_jobs, store_jobs,
                   start_calls, last_call, sessVars, ioVars, req, status>>

\* ------------------------------------------------------ the status endpoint
\* the faults a status query may meet: which scheduler call would raise
Faults == {"none", "get_job", "get_jobs"}

\* BackgroundScheduler.get_job(job_id): the job, or None
get_job(job_id) == IF job_id \in get_jobs THEN job_id ELSE None

\* the exception, if any, that evaluating the response dictionary raises:
\* get_job(...) is evaluated only when scheduler.running is true, and
\* None.next_run_time is an AttributeError
StatusException(fault) ==
    IF running /\ fault = "get_job" THEN "get_job raised"
    ELSE IF running /\ get_job(CleanupJobId) = None THEN "AttributeError"
    ELSE IF fault = "get_jobs" THEN "get_jobs raised"
    ELSE None

\* the response with job_count taken from the job store alone
StatusResponse_storeonly(fault) ==
    LET e == StatusException(fault)
    IN IF e # None
         THEN [NoStatus EXCEPT !.queried = TRUE, !.fault = fault,
                               !.raised = TRUE, !.message = e]
         ELSE [queried |-> TRUE, fault |-> fault, raised |-> FALSE, message |-> None,
               running |-> running,
               retention_minutes |-> retention_minutes,
               next_run |-> IF running THEN next_run_time ELSE NoTime,
               job_count |-> Cardinality(store_jobs),
               error |-> None]

\* get_worker_status: the response dictionary, or the exception that leaves
\* the handler
StatusResponse(fault) ==
    LET e == StatusException(fault)
    IN IF e # None
         THEN [NoStatus EXCEPT !.queried = TRUE, !.fault = fault,
                               !.raised = TRUE, !.message = e]
         ELSE [queried |-> TRUE, fault |-> fault, raised |-> FALSE, message |-> None,
               running |-> running,
               retention_minutes |-> retention_minutes,
               next_run |-> IF running THEN next_run_time ELSE NoTime,
               job_count |-> Cardinality(get_jobs),
               error |-> None]

get_worker_status(fault) ==
    /\ status' = StatusResponse(fault)
    /\ UNCHANGED <<now, confVars, readVars, schedVars, storeVars, sessVars, ioVars,
                   fsVars, req, sweep>>

\* the sweeper and the upload path, without status queries and without
\* failures of the upload
NextSweep ==
    \/ Tick
    \/ start
    \/ stop
    \/ \E filename \in Filenames : save_upload_file(filename)
    \/ create_document(uuid4)
    \/ \E p \in 1..MaxPages, n \in 0..MaxImages : extract_text_and_images(p, n)
    \/ \E k \in 0..MaxTables : extract_tables(k)
    \/ save_text_content(FALSE)
    \/ save_images(FALSE)
    \/ save_tables(FALSE)
    \/ TimerFire

SweepSpec == Init /\ [][NextSweep]_vars

\* the sweeper's lifecycle and the status endpoint, with an empty store
NextStatus ==
    \/ Tick
    \/ start
    \/ stop
    \/ TimerFire
    \/ \E fault \in Faults : get_worker_status(fault)

StatusSpec == Init /\ [][NextStatus]_vars

\* a caller of the repository: after create_document it calls the save
\* functions on the request's session in any order, with mappings of its own,
\* and documents are deleted and looked up between requests
NextRepo ==
    \/ save_upload_file("a.pdf")
    \/ create_document(uuid4)
    \/ \E text_data \in TextInputs : call_save_text_content(text_data)
    \/ \E n \in 1..MaxImages : call_save_images(n)
    \/ \E tables_data \in TablesInputs : call_save_tables(tables_data)
    \/ close_session
    \/ \E document_id \in DocIds : delete_document(document_id)
    \/ \E document_id \in DocIds : get_document(document_id)

RepoSpec == Init /\ [][NextRepo]_vars

\* uploads, with their failures, and look-ups
NextProcess ==
    \/ \E filename \in UploadNames : reject_upload(filename)
    \/ \E filename \in UploadNames : save_upload_file(filename)
    \/ create_document(uuid4)
    \/ \E p \in 1..MaxPages, n \in 0..MaxImages : extract_text_and_images(p, n)
    \/ extraction_fails
    \/ \E k \in 0..MaxTables : extract_tables(k)
    \/ \E db_fails \in BOOLEAN : save_text_content(db_fails)
    \/ \E db_fails \in BOOLEAN : save_images(db_fails)
    \/ \E db_fails \in BOOLEAN : save_tables(db_fails)
    \/ \E document_id \in DocIds : get_document(document_id)
    \/ \E document_id \in DocIds : get_pdf_by_id(document_id)

ProcessSpec == Init /\ [][NextProcess]_vars

\* a client gets a document that its last list call returned
get_listed(document_id) ==
    /\ listed.called
    /\ \E k \in 1..Len(listed.ids) : listed.ids[k] = document_id
    /\ get_pdf_by_id(document_id)

\* a client lists the documents and gets the listed ones while uploads (of
\* PDFs with one page, MaxImages images and MaxTables tables) and sweeps go on
NextRead ==
    \/ Tick
    \/ start
    \/ save_upload_file("a.pdf")
    \/ create_document(uuid4)
    \/ extract_text_and_images(1, MaxImages)
    \/ extract_tables(MaxTables)
    \/ save_text_content(FALSE)
    \/ save_images(FALSE)
    \/ save_tables(FALSE)
    \/ TimerFire
    \/ list_documents(0, MaxDocs)
    \/ \E document_id \in DocIds : get_listed(document_id)

ReadSpec == Init /\ [][NextRead]_vars

\* documents are created at different times and listed page by page
NextList ==
    \/ Tick
    \/ \E filename \in Filenames : save_upload_file(filename)
    \/ create_document(uuid4)
    \/ close_session
    \/ \E skip \in 0..(MaxDocs + 1), limit \in 0..(MaxDocs + 1) : list_documents(skip, limit)

ListSpec == Init /\ [][NextList]_vars

\* callers of parse_image_filename
NextParse ==
    \E document_id \in IdTexts, page \in Numbers, index \in Numbers, ext \in ExtTexts :
        call_parse_image_filename(document_id, page, index, ext)

ParseSpec == Init /\ [][NextParse]_vars

\* the uploads and the sweeps with their scheduling: the clock advances, and
\* the scheduler's thread runs a job that is due (a sweep may still meet any
\* of its failures)
LiveSpec == Init /\ [][NextSweep]_vars /\ WF_vars(Tick) /\ WF_vars(TimerFire)

\* the sweeper's lifecycle and the status endpoint for every value of the
\* environment; when the import of app.config raised, nothing of the
\* application runs
NextConfig ==
    \/ Imported /\ Tick
    \/ Imported /\ start
    \/ Imported /\ stop
    \/ Imported /\ TimerFire
    \/ Imported /\ \E fault \in Faults : get_worker_status(fault)

ConfigSpec == ConfigInit /\ [][NextConfig]_vars

\* every operation of the model
Next ==
    \/ Tick
    \/ start
    \/ stop
    \/ \E filename \in Filenames : save_upload_file(filename)
    \/ create_document(uuid4)
    \/ \E p \in 1..MaxPages, n \in 0..MaxImages : extract_text_and_images(p, n)
    \/ \E k \in 0..MaxTables : extract_tables(k)
    \/ save_text_content(FALSE)
    \/ save_images(FALSE)
    \/ save_tables(FALSE)
    \/ TimerFire
    \/ \E fault \in Faults : get_worker_status(fault)
    \/ NextProcess
    \/ NextRepo
    \/ NextList
    \/ NextRead
    \/ NextParse

Spec == Init /\ [][Next]_vars

\* ------------------------------------------------------------------ claims

\* a step that runs cleanup_old_files: the record of the last sweep changes
\* (two sweeps never run in the same minute)
SweepStep == sweep' # sweep

\* C1: after a sweep that acquired a session and completed, every document
\* older than the cutoff has lost its row and all its child rows.
C1_OldRowsDeleted ==
    (sweep.session = "closed" /\ sweep.exc = "none") =>
        \A id \in sweep.selected :
            /\ \A d \in documents : d.id # id
            /\ \A i \in images : i.document_id # id

\* C2: a sweep over an old document whose PDF and image files are already
\* missing from disk does not raise and deletes the document's row.
C2_MissingFilesRowDeleted ==
    [][SweepStep =>
        \A d \in documents :
            (/\ d.id \in sweep'.attempted
             /\ d.filename \notin upload_dir
             /\ \A i \in DocumentImages(d) : i.filename \notin image_dir)
            => (~sweep'.raised /\ d \notin documents')]_vars

\* C3: a sweep whose query succeeds selects a document if and only if the
\* document is strictly older than the retention age: created_at + retention
\* < now.  A document created exactly at now - retention is not selected.
C3_StrictCutoff ==
    [][(SweepStep /\ sweep'.session = "closed" /\ sweep'.exc # "query") =>
        \A d \in documents :
            (d.id \in sweep'.selected) <=> (d.created_at + retention_minutes < now)]_vars

\* a sweep just selected a document one minute older than the cutoff and left
\* out a document created exactly at the cutoff
C3_Witness ==
    \E d1 \in documents, d2 \in documents :
        /\ d1.id \in sweep.selected
        /\ d2.id \notin sweep.selected
        /\ sweep.time = now
        /\ d2.created_at = now - retention_minutes
        /\ d1.created_at = d2.created_at - 1

\* C4: a failure while processing one selected document does not keep the
\* other selected documents from being processed.
C4_FailureIsolated ==
    \A id \in sweep.selected : id # sweep.failed_doc => id \in sweep.attempted

\* C5: no exception leaves the sweep; whatever fails (the session factory
\* included) the sweeper stays RUNNING with its job registered and due again
\* one interval later.
C5_SweepNeverRaises ==
    [][SweepStep =>
        (/\ ~sweep'.raised
         /\ running'
         /\ CleanupJobId \in store_jobs'
         /\ next_run_time' = now + Interval)]_vars

\* a sweep failed to acquire its session, and the sweeper is still running
\* with the next run scheduled
C5_Witness ==
    /\ sweep.session = "failed"
    /\ sweep.time = now
    /\ running
    /\ next_run_time = now + Interval

\* C6: start makes the sweeper RUNNING and changes nothing when it already
\* runs (scheduler.start() is called at most once per start/stop cycle); stop
\* makes it STOPPED and changes nothing when it is already stopped; the state
\* is always the one the last call asked for.
C6_StartStopIdempotent ==
    [][/\ running' \in BOOLEAN
       /\ start => (running' /\ (running => UNCHANGED <<pending_jobs, store_jobs,
                                                        next_run_time, start_calls>>))
       /\ stop => (~running' /\ (~running => UNCHANGED <<pending_jobs, store_jobs,
                                                        next_run_time, start_calls>>))
       /\ start_calls' <= 1
       /\ (last_call' = "start" => running')
       /\ (last_call' = "stop" => ~running')]_vars

\* the sweeper was started and then stopped
C6_Witness ==
    /\ last_call = "stop"
    /\ ~running
    /\ pending_jobs = {}

\* C7: the status query never raises; when querying the scheduler throws it
\* answers running=false, next_run=null, job_count=0, the configured retention
\* and the exception message in "error".
C7_StatusNeverRaises ==
    status.queried =>
        /\ ~status.raised
        /\ status.message # None =>
              /\ status.running = FALSE
              /\ status.next_run = NoTime
              /\ status.job_count = 0
              /\ status.retention_minutes = retention_minutes
              /\ status.error = status.message

\* C8: queried while the scheduler is not running and the job lookup would
\* raise, the status answers running=false with an "error" field.
C8_NotRunningReportsError ==
    [][(get_worker_status("get_job") /\ ~running) =>
        (/\ ~status'.raised
         /\ status'.running = FALSE
         /\ status'.error # None)]_vars

\* C9: a status query that meets no failure reports the sweeper's state, the
\* configured retention, the number of registered jobs, and a next run exactly
\* when the sweeper is RUNNING (then the cleanup job's next fire time).
C9_StatusReportsState ==
    [][\A fault \in Faults :
        (get_worker_status(fault) /\ ~status'.raised) =>
            /\ status'.running = running
            /\ status'.retention_minutes = retention_minutes
            /\ status'.job_count = Cardinality(pending_jobs \cup store_jobs)
            /\ (status'.next_run # NoTime) <=> running
            /\ running => status'.next_run = next_run_time]_vars

\* a query answered for a running sweeper, with its one job and next run
C9_Witness ==
    /\ status.queried
    /\ ~status.raised
    /\ status.running
    /\ status.job_count = 1
    /\ status.next_run # NoTime

\* C10: a sweep deletes no PDF or image file of a document that is not
\* strictly older than the cutoff, and with no document older than the cutoff
\* it removes no file and no row.
C10_SweepSparesRecentFiles ==
    [][SweepStep =>
        LET cutoff == now - retention_minutes
        IN /\ \A d \in documents : ~(d.created_at < cutoff) =>
                 /\ d.filename \in upload_dir => d.filename \in upload_dir'
                 /\ \A i \in DocumentImages(d) :
                        i.filename \in image_dir => i.filename \in image_dir'
           /\ OldDocuments(cutoff) = {} =>
                 /\ upload_dir' = upload_dir /\ image_dir' = image_dir
                 /\ documents' = documents /\ images' = images]_vars

\* the steps that change the sweep record are exactly the runs of the cleanup job
SweepStepIsTimerFire == [][SweepStep <=> TimerFire]_vars

\* C11: in every reachable state no two document rows share their stored
\* file name in the upload folder, and no two image rows share their image
\* file name: each stored file belongs to exactly one document.
C11_StoredNamesUnique ==
    /\ \A d1, d2 \in documents : d1.filename = d2.filename => d1 = d2
    /\ \A i1, i2 \in images : i1.filename = i2.filename => i1 = i2

C13_ChildrenHaveParent ==
    LET ids == {d.id : d \in documents}
    IN /\ \A r \in text_contents \cup images \cup tables : r.document_id \in ids
       /\ \A r \in pending.text \cup pending.tables : r.document_id \in ids

\* rows of all three kinds stand for a document, after a sweep took place
C13_Witness ==
    /\ sweep.session = "closed"
    /\ \E d \in documents :
          /\ \E r \in text_contents : r.document_id = d.id
          /\ \E r \in images : r.document_id = d.id
          /\ \E r \in tables : r.document_id = d.id

\* C14: deleting a document removes all its text, image and table rows (none
\* is left for it after the delete) and leaves the child rows of every other
\* document as they were.
C14_DeleteCascades ==
    [][\A d \in documents : d \notin documents' =>
          /\ \A r \in text_contents' \cup images' \cup tables' : r.document_id # d.id
          /\ \A o \in documents \ {d} : o.id # d.id =>
                /\ {r \in text_contents' : r.document_id = o.id}
                      = {r \in text_contents : r.document_id = o.id}
                /\ {r \in images' : r.document_id = o.id}
                      = {r \in images : r.document_id = o.id}
                /\ {r \in tables' : r.document_id = o.id}
                      = {r \in tables : r.document_id = o.id}]_vars

\* a document with child rows was deleted while another document keeps its own
C14_Witness ==
    /\ call.op = "delete"
    /\ call.built # {}
    /\ \A d \in documents : d.id # call.document_id
    /\ \E r \in text_contents \cup tables : r.document_id # call.document_id

\* C15: each save_text_content, save_images and save_tables call is atomic
\* whatever its outcome: a call that returns has committed every row built
\* from its input, and no row of a call that raised part-way is committed,
\* by that call or by any later commit on the same session.
C15_SaveIsAtomic ==
    [][/\ \A r \in pending.text : r \notin text_contents'
       /\ \A r \in pending.tables : r \notin tables'
       /\ (call' # call /\ call'.op \in {"save_text_content", "save_tables"}) =>
             LET committed == {r.id : r \in text_contents' \cup tables'}
             IN IF call'.raised THEN call'.built \cap committed = {}
                ELSE call'.built \subseteq committed]_vars

\* the labels of the form "Page N"
IsPageN(page_key) == \E n \in 1..4 : page_key = PageLabel(n)

\* the labels whose second word is an integer literal
HasNumber(page_key) ==
    /\ Len(split(page_key)) >= 2
    /\ \E n \in 1..4 : split(page_key)[2] = split(PageLabel(n))[2]

\* the number that the second word of the label denotes
NumberOf(page_key) == CHOOSE n \in 1..4 : split(page_key)[2] = split(PageLabel(n))[2]

\* C16 as stated: save_text_content and save_tables store page number N for
\* each label "Page N", and fail, storing nothing for the call, whenever a
\* label is not of the form "Page N".
C16_OnlyPageNAccepted ==
    [][/\ \A text_data \in TextInputs :
            (call'.op = "save_text_content" /\ call_save_text_content(text_data)) =>
            IF \A k \in DOMAIN text_data : IsPageN(text_data[k][1])
              THEN /\ ~call'.raised
                   /\ \A k \in DOMAIN text_data : \E r \in text_contents' :
                         r.id = rows_made + k /\ r.page_number = NumberOf(text_data[k][1])
              ELSE call'.raised /\ UNCHANGED storeVars
       /\ \A tables_data \in TablesInputs :
            (call'.op = "save_tables" /\ call_save_tables(tables_data)) =>
            IF \A k \in DOMAIN tables_data : IsPageN(tables_data[k][1])
              THEN /\ ~call'.raised
                   /\ \A k \in DOMAIN tables_data : \E r \in tables' :
                         r.id = rows_made + k /\ r.page_number = NumberOf(tables_data[k][1])
              ELSE call'.raised /\ UNCHANGED storeVars]_vars

\* C16 (amended): save_text_content and save_tables store, for each label
\* whose second word is an integer literal N ("Page N", but also "Sheet N"),
\* the page number N, and fail, storing nothing for the call, whenever a
\* label has fewer than two words or a second word that is no integer.
C16_SecondWordParsed ==
    [][/\ \A text_data \in TextInputs :
            (call'.op = "save_text_content" /\ call_save_text_content(text_data)) =>
            IF \A k \in DOMAIN text_data : HasNumber(text_data[k][1])
              THEN /\ ~call'.raised
                   /\ \A k \in DOMAIN text_data : \E r \in text_contents' :
                         r.id = rows_made + k /\ r.page_number = NumberOf(text_data[k][1])
              ELSE call'.raised /\ UNCHANGED storeVars
       /\ \A tables_data \in TablesInputs :
            (call'.op = "save_tables" /\ call_save_tables(tables_data)) =>
            IF \A k \in DOMAIN tables_data : HasNumber(tables_data[k][1])
              THEN /\ ~call'.raised
                   /\ \A k \in DOMAIN tables_data : \E r \in tables' :
                         r.id = rows_made + k /\ r.page_number = NumberOf(tables_data[k][1])
              ELSE call'.raised /\ UNCHANGED storeVars]_vars

\* calls stored page 1 (for "Page 1") and page 2 (for "Sheet 2") and, on the
\* same session, another call raised on a label and stored nothing
C16_Witness ==
    /\ call.op \in {"save_text_content", "save_tables"}
    /\ call.raised
    /\ \E r \in text_contents \cup tables : r.page_number = 1
    /\ \E r \in text_contents \cup tables : r.page_number = 2

C18_AbsentIsNone ==
    [][(got' # got /\ \A d \in documents : d.id # got'.document_id) =>
        /\ ~got'.raised
        /\ ~got'.found
        /\ UNCHANGED <<storeVars, pending, fsVars>>]_vars

\* an absent id was looked up while another document is stored
C18_Witness ==
    /\ got.op \in {"get_document", "get_pdf_by_id"}
    /\ ~got.found /\ ~got.raised
    /\ documents # {}
    /\ \A d \in documents : d.id # got.document_id

\* C19: whenever the processing of an upload fails after its document row
\* was committed, the store holds that document with no child row at all.
C19_FailedProcessLeavesNoChildren ==
    [][(resp' # resp /\ resp'.status = "400" /\ resp'.document_id # 0) =>
        /\ \E d \in documents' : d.id = resp'.document_id
        /\ \A r \in text_contents' \cup images' \cup tables' :
              r.document_id # resp'.document_id]_vars

\* C20: an upload whose file name does not end in .pdf is answered 400
\* "Only PDF files are supported" before any extraction: no file is written
\* and no row created for it.
C20_NonPdfRejected ==
    [][\A filename \in RejectedNames :
          /\ ~save_upload_file(filename)
          /\ reject_upload(filename) =>
                /\ resp'.status = "400"
                /\ resp'.detail = "Only PDF files are supported"
                /\ UNCHANGED <<storeVars, fsVars, req>>]_vars

\* a file that is no PDF was turned away, the stored documents untouched
C20_Witness ==
    /\ resp.status = "400"
    /\ resp.detail = "Only PDF files are supported"
    /\ documents # {}
    /\ "notes.txt" \notin upload_dir

\* C24: in every state the sweeper's retention age is the value fixed at
\* construction, whatever start, stop, sweep or status query came after: the
\* configured FILE_RETENTION_MINUTES when it is set and parses as an integer,
\* and the default of 10 minutes when it is unset or does not parse.
C24_RetentionFixedAtConstruction ==
    retention_minutes = IF environ # None /\ int(environ).ok
                          THEN int(environ).value
                          ELSE DefaultRetention

\* C25: the timer invokes the sweep only while the sweeper is RUNNING (never
\* before the first start, never between a stop and the next start); while
\* the sweeper is RUNNING a next invocation is always scheduled, and each
\* invocation schedules the next one exactly one interval (one minute)
\* later, whatever the retention age.
C25_TimerOnlyAndAlwaysWhileRunning ==
    [][/\ SweepStep => (running /\ running' /\ next_run_time' = now + Interval)
       /\ running' => next_run_time' # NoTime
       /\ ~running' => next_run_time' = NoTime]_vars

\* C26: right after construction the sweeper is STOPPED, and in every state
\* (after any sequence of start, stop and sweep) the scheduler reports exactly
\* one registered job, whose id is cleanup_old_files.
C26_ExactlyOneJob ==
    /\ last_call = "none" => ~running
    /\ get_jobs = {CleanupJobId}
    /\ Cardinality(get_jobs) = 1

\* C27: in every state (after any sequence of persistence calls), for every
\* document there is at most one text row per page number, at most one image
\* row per (page, image index) and at most one table row per (page, table
\* index).
C27_ChildKeysUnique ==
    /\ \A r1, r2 \in text_contents :
          (r1.document_id = r2.document_id /\ r1.page_number = r2.page_number)
             => r1 = r2
    /\ \A r1, r2 \in images :
          (r1.document_id = r2.document_id /\ r1.page_number = r2.page_number
              /\ r1.image_index = r2.image_index) => r1 = r2
    /\ \A r1, r2 \in tables :
          (r1.document_id = r2.document_id /\ r1.page_number = r2.page_number
              /\ r1.table_index = r2.table_index) => r1 = r2

\* C30: the session a sweep acquired is closed when the sweep has returned,
\* on every path (early return, normal completion, exception in the query or
\* while a document is processed); only a sweep whose SessionLocal() raised
\* has no session to close.
C30_SessionClosed ==
    /\ sweep.session \in {"none", "failed", "closed"}
    /\ sweep.session = "none" <=> sweep.time = NoTime
    /\ sweep.session = "failed" <=> sweep.exc = "session"

\* a sweep left by the exception of a document's lazy load, its session closed
C30_Witness ==
    /\ sweep.exc = "load"
    /\ sweep.session = "closed"
    /\ sweep.attempted # {}

\* a run of cleanup_old_files in the current state deletes no file, whatever
\* it meets, and no exception it can meet leaves it (it never touches a row)
SecondSweepChangesNothing ==
    /\ \A st \in LoopOutcomes : st.upload_dir = upload_dir /\ st.image_dir = image_dir
    /\ \A exc \in {"session", "query", "load"} : ~Propagates(exc)

RunningWithinHorizon == running /\ next_run_time <= MaxTime

\* the sweeper was stopped, an os.remove of the last sweep failed, or the
\* last sweep met an exception
SweepExcused == ~running \/ sweep.rm_failed \/ sweep.exc # "none"

\* the stored PDF f belongs to a document older than the retention age
OldPdfPresent(f) ==
    /\ f \in upload_dir
    /\ \E d \in OldDocuments(now - retention_minutes) : d.filename = f

\* the stored image file f belongs to a document older than the retention age
OldImagePresent(f) ==
    /\ f \in image_dir
    /\ \E i \in OldImages(OldDocuments(now - retention_minutes)) : i.filename = f

\* C28: while the sweeper stays RUNNING and no file delete fails, every
\* stored PDF and every stored image file of a document that has become older
\* than the retention age is eventually deleted.
C28_OldFilesEventuallyDeleted ==
    /\ \A f \in Filenames :
          (OldPdfPresent(f) /\ RunningWithinHorizon)
             ~> (f \notin upload_dir \/ SweepExcused)
    /\ \A d \in DocIds, k \in 1..MaxImages :
          (OldImagePresent(ImageFilename(d, 0, k)) /\ RunningWithinHorizon)
             ~> (ImageFilename(d, 0, k) \notin image_dir \/ SweepExcused)

\* C23: for every document id, page, index and extension, parsing the file
\* name {document_id}_page_{page}_image_{index}.{ext} returns the document
\* id, the page and the index it was built from, and two file names built
\* from distinct (document id, page, index) triples are distinct.
C23_ParseInvertsFormat ==
    /\ \A r \in {parsed.first, parsed.second} :
          r.filename # <<>> =>
             /\ ~r.raised
             /\ r.parsed_id = r.document_id
             /\ r.page_num = r.page
             /\ r.img_index = r.index
    /\ (/\ parsed.second.filename # <<>>
        /\ <<parsed.first.document_id, parsed.first.page, parsed.first.index>>
              # <<parsed.second.document_id, parsed.second.page, parsed.second.index>>)
          => parsed.first.filename # parsed.second.filename

\* two file names were parsed that differ only in a two-digit page number,
\* for a document id with a hyphen
C23_Witness ==
    /\ parsed.called
    /\ parsed.first.document_id = <<"7", "-", "b">>
    /\ parsed.second.document_id = <<"7", "-", "b">>
    /\ parsed.first.page = 10 /\ parsed.first.page_num = 10
    /\ parsed.second.page = 11 /\ parsed.second.page_num = 11
    /\ parsed.first.index = parsed.second.index
    /\ parsed.second.filename # <<>>
    /\ parsed.first.filename # parsed.second.filename

\* the documents stored that are newer than d, and those that are not older
Newer(d) == {e \in documents : e.created_at > d.created_at}
NotOlder(d) == {e \in documents : e.created_at >= d.created_at}

\* C22: list_documents(skip, limit) returns the documents at positions
\* skip .. skip+limit-1 of the stored documents ordered newest first: as many
\* as there are at those positions and at most limit, none repeated, none
\* when skip is at least the number of documents, each one at a position
\* that its creation time allows, newer before older.
C22_ListIsPageOfNewestFirst ==
    [][listed' # listed =>
        LET ids == listed'.ids
            skip == listed'.skip
            limit == listed'.limit
            total == Cardinality(documents)
            doc(k) == CHOOSE d \in documents : d.id = ids[k]
        IN /\ Len(ids) <= limit
           /\ skip >= total => ids = <<>>
           /\ skip < total =>
                 Len(ids) = IF total - skip < limit THEN total - skip ELSE limit
           /\ \A k \in 1..Len(ids) : \E d \in documents : d.id = ids[k]
           /\ \A i, j \in 1..Len(ids) : i # j => ids[i] # ids[j]
           /\ \A k \in 1..Len(ids) :
                 /\ Cardinality(Newer(doc(k))) <= skip + k - 1
                 /\ skip + k <= Cardinality(NotOlder(doc(k)))
           /\ \A i, j \in 1..Len(ids) :
                 i < j => doc(i).created_at >= doc(j).created_at]_vars

\* the second page of one document was listed: the older of two documents
\* created at different times
C22_Witness ==
    /\ listed.called
    /\ listed.skip = 1
    /\ listed.limit = 1
    /\ Len(listed.ids) = 1
    /\ \E d, e \in documents :
          /\ d.id = listed.ids[1]
          /\ e.created_at > d.created_at

\* the look-up result g holds everything the store has for its document: a
\* text entry for every text row, an image entry for every image row, and
\* for every page with table rows an entry with as many tables as rows
CompleteDocument(g) ==
    /\ {t[1] : t \in g.text} =
          {PageLabel(r.page_number) :
              r \in {x \in text_contents : x.document_id = g.document_id}}
    /\ {i.filename : i \in g.images} =
          {r.filename : r \in {x \in images : x.document_id = g.document_id}}
    /\ Cardinality(g.images) =
          Cardinality({x \in images : x.document_id = g.document_id})
    /\ \A r \in {x \in tables : x.document_id = g.document_id} :
          \E t \in g.tables :
             /\ t[1] = PageLabel(r.page_number)
             /\ Len(t[2]) = Cardinality({x \in tables :
                               /\ x.document_id = g.document_id
                               /\ x.page_number = r.page_number})
    /\ \A t \in g.tables :
          \E r \in tables : /\ r.document_id = g.document_id
                            /\ t[1] = PageLabel(r.page_number)

====
